---- MODULE Spec2Model ----
(***************************************************************************)
(* Transaction ledger: handlers -> services -> repository -> table.       *)
(* The table is the only shared state.  Every request runs in its own      *)
(* slot and interleaves with the others at the repository statements.      *)
(* Amounts are integers in thousandths of a currency unit.                 *)
(***************************************************************************)
EXTENDS Integers, Sequences, FiniteSets, TLC

(* ------------------------------ bounds -------------------------------- *)
NumSlots == 2
MaxRows == 2
ConcRows == 1
MaxClock == 2
PageRows == 21

Slots == 1..NumSlots

(* ------------------------------ entity -------------------------------- *)
Statuses == {"pending", "success", "failed"}

ZeroTime == 0

NoTx == [id |-> 0, user_id |-> 0, amount |-> 0, status |-> "",
         created_at |-> ZeroTime, updated_at |-> ZeroTime]

\* a faulty variant: a column without fractional digits, decimal(15,0)
ColumnAmountWhole(a) ==
    IF a >= 0 THEN ((a + 500) \div 1000) * 1000 ELSE 0 - (((0 - a) + 500) \div 1000) * 1000

\* decimal(15,2): the column keeps two fractional digits, rounding half away
\* from zero; the result is again in thousandths.
ColumnAmount(a) ==
    IF a >= 0 THEN ((a + 5) \div 10) * 10 ELSE 0 - (((0 - a) + 5) \div 10) * 10

(* ------------------------------ errors -------------------------------- *)
NoErr == "<nil>"

ErrRecordNotFound == [sentinel |-> "gorm.ErrRecordNotFound", msg |-> "record not found"]

\* failures of the connection or of the statement; the text of the second
\* collides with the service's own not-found message
DriverErrs == {[sentinel |-> "driver", msg |-> "connection refused"],
               [sentinel |-> "driver", msg |-> "transaction not found"]}

NoStoreErr == [sentinel |-> "", msg |-> ""]

ErrorsIs(err, target) == err.sentinel = target.sentinel

Errorf(prefix, err) == prefix \o err.msg

(* ----------------------------- repository ---------------------------- *)
\* a faulty variant: the table hands out the lowest id no row has
CreateLowestFreeId(table, tx, id, t) ==
    LET free == CHOOSE i \in 1..id : i \notin DOMAIN table /\ \A j \in 1..(i - 1) : j \in DOMAIN table
    IN  table @@ (free :> [tx EXCEPT !.id = free, !.amount = ColumnAmount(tx.amount),
                                     !.created_at = t, !.updated_at = t])

\* r.db.Create(tx): gorm stamps the timestamps, the table assigns the id and
\* keeps the amount at the column's scale
Create(table, tx, id, t) ==
    table @@ (id :> [tx EXCEPT !.id = id, !.amount = ColumnAmount(tx.amount),
                               !.created_at = t, !.updated_at = t])

\* what the caller's *Transaction holds after r.db.Create returned nil
Created(tx, id, t) == [tx EXCEPT !.id = id, !.created_at = t, !.updated_at = t]

Exists(table, id) == id \in DOMAIN table

GetByID(table, id) == IF Exists(table, id) THEN table[id] ELSE NoTx

Has(updates, f) == f \in DOMAIN updates

\* a faulty variant: the statement without its WHERE id = ?
UpdateEveryRow(table, id, updates, t) ==
    [i \in DOMAIN table |->
        [table[i] EXCEPT !.status = IF Has(updates, "status") THEN updates.status ELSE @,
                         !.updated_at = t]]

\* a faulty variant: a row that is missing is written anew, as Save would
UpdateOrInsert(table, id, updates, t) ==
    IF Exists(table, id)
    THEN [table EXCEPT ![id] =
            [@ EXCEPT !.status = IF Has(updates, "status") THEN updates.status ELSE @,
                      !.updated_at = t]]
    ELSE table @@ (id :> [NoTx EXCEPT !.id = id,
                                      !.status = IF Has(updates, "status")
                                                 THEN updates.status ELSE "",
                                      !.created_at = t, !.updated_at = t])

\* r.db.Model(..).Where("id = ?", id).Updates(updates): the columns named by
\* the map and updated_at; zero matching rows is not an error
Update(table, id, updates, t) ==
    IF Exists(table, id)
    THEN [table EXCEPT ![id] =
            [@ EXCEPT !.user_id = IF Has(updates, "user_id") THEN updates.user_id ELSE @,
                      !.amount = IF Has(updates, "amount") THEN ColumnAmount(updates.amount) ELSE @,
                      !.status = IF Has(updates, "status") THEN updates.status ELSE @,
                      !.updated_at = t]]
    ELSE table

Delete(table, id) == [i \in DOMAIN table \ {id} |-> table[i]]

\* a faulty variant: a row passes when one of the filters that are set holds
MatchesEither(tx, filters) ==
    \/ filters.user_id = 0 /\ filters.status = ""
    \/ filters.user_id # 0 /\ tx.user_id = filters.user_id
    \/ filters.status # "" /\ tx.status = filters.status

\* the WHERE clauses GetAll adds for the filters that are set
Matches(tx, filters) ==
    /\ filters.user_id # 0 => tx.user_id = filters.user_id
    /\ filters.status # "" => tx.status = filters.status

DefaultLimit == 20

MaxLimit == 100

\* a faulty variant: a limit above the maximum is cut down to the maximum
EffectiveLimitCapped(limit) ==
    IF limit = 0 THEN DefaultLimit ELSE IF limit > MaxLimit THEN MaxLimit ELSE limit

\* part_000:64-67
EffectiveLimit(limit) == IF limit = 0 \/ limit > MaxLimit THEN DefaultLimit ELSE limit

\* part_000:68-71
EffectiveOffset(offset) == IF offset < 0 THEN 0 ELSE offset

\* ORDER BY created_at DESC: every order of the rows in which no row comes
\* before a newer one; rows of one created_at come in any order
RECURSIVE Orderings(_, _)
Orderings(table, ids) ==
    IF ids = {} THEN {<<>>}
    ELSE LET newest == {i \in ids : \A j \in ids : table[j].created_at <= table[i].created_at}
         IN  UNION {{<<table[i]>> \o rest : rest \in Orderings(table, ids \ {i})} : i \in newest}

\* LIMIT limit OFFSET offset; gorm writes no LIMIT clause for a negative limit
Page(rows, limit, offset) ==
    LET end == IF limit < 0 \/ offset + limit > Len(rows) THEN Len(rows) ELSE offset + limit
    IN  IF offset >= Len(rows) THEN <<>> ELSE SubSeq(rows, offset + 1, end)

\* the results GetAll can return for the filters
GetAll(table, filters) ==
    {Page(rows, EffectiveLimit(filters.limit), EffectiveOffset(filters.offset)) :
       rows \in Orderings(table, {id \in DOMAIN table : Matches(table[id], filters)})}

\* a day is DayLength ticks of the clock
DayLength == 2

\* time.Now().Format("2006-01-02") and DATE(created_at)
Date(t) == t \div DayLength

\* WHERE status = 'success' AND DATE(created_at) = today
TodaySuccessful(table, today) ==
    {id \in DOMAIN table : table[id].status = "success" /\ Date(table[id].created_at) = today}

\* a faulty variant: the SUM statement without the condition on the day
TodaySuccessfulSumAnyDay(table, today) ==
    {id \in DOMAIN table : table[id].status = "success"}

\* the WHERE of the SUM statement, written out a second time in the code
TodaySuccessfulSum(table, today) ==
    {id \in DOMAIN table : table[id].status = "success" /\ Date(table[id].created_at) = today}

\* COALESCE(SUM(amount), 0) over the rows ids
RECURSIVE SumAmount(_, _)
SumAmount(table, ids) ==
    IF ids = {} THEN 0
    ELSE LET id == CHOOSE i \in ids : TRUE
         IN  table[id].amount + SumAmount(table, ids \ {id})

\* WHERE status = ? ... Count
CountStatus(table, status) == Cardinality({id \in DOMAIN table : table[id].status = status})

\* AVG of an integer column has four fractional digits
AverageScale == 10000

\* a faulty variant: COALESCE(AVG(..), 1)
AveragePerUserOrOne(table) ==
    LET users == Cardinality({table[id].user_id : id \in DOMAIN table})
        rows == Cardinality(DOMAIN table)
    IN  IF users = 0 THEN AverageScale ELSE (2 * AverageScale * rows + users) \div (2 * users)

\* COALESCE(AVG(user_transaction_count), 0) over the rows per user_id, rounded
\* half up, in ten-thousandths
AveragePerUser(table) ==
    LET users == Cardinality({table[id].user_id : id \in DOMAIN table})
        rows == Cardinality(DOMAIN table)
    IN  IF users = 0 THEN 0 ELSE (2 * AverageScale * rows + users) \div (2 * users)

\* the results GetLatest(limit) can return
GetLatest(table, limit) == {Page(rows, limit, 0) : rows \in Orderings(table, DOMAIN table)}

(* ------------------------------ service ------------------------------- *)
\* a faulty variant: the status is not forced to pending
NewTransactionSuccess(req) ==
    [NoTx EXCEPT !.user_id = req.user_id, !.amount = req.amount, !.status = "success"]

\* services/transaction.go:34-38
NewTransaction(req) ==
    [NoTx EXCEPT !.user_id = req.user_id, !.amount = req.amount, !.status = "pending"]

\* a faulty variant: no check of the status
AnyStatus(status) == TRUE

\* services/transaction.go:79
ValidStatus(status) == status \in Statuses

\* a faulty variant: no check of the filter
AnyStatusFilter(status) == TRUE

\* services/transaction.go:64
ValidStatusFilter(status) == status = "" \/ status \in Statuses

\* faulty variants: the map carries a second column
StatusUpdatesWithAmount(status) == [status |-> status, amount |-> 0]

StatusUpdatesWithTime(status) == [status |-> status, updated_at |-> ZeroTime]

\* services/transaction.go:92-94
StatusUpdates(status) == [status |-> status]

\* a faulty variant: every failure of the lookup is taken for not-found
LookupErrNotFound(err) == "transaction not found"

\* the existence check shared by GetTransaction, UpdateTransactionStatus and
\* DeleteTransaction
LookupErr(err) ==
    IF ErrorsIs(err, ErrRecordNotFound)
    THEN "transaction not found"
    ELSE Errorf("failed to get transaction: ", err)

\* services/dashboard.go:45
LatestLimit == 10

\* a faulty variant: the latest transactions are fetched second
AfterCallLatestSecond(fn) ==
    CASE fn = "GetTodaySuccessful" -> "GetLatest"
      [] fn = "GetLatest" -> "GetAveragePerUser"
      [] fn = "GetAveragePerUser" -> "GetStatusCounts"
      [] fn = "GetStatusCounts" -> "return"

\* what GetSummary does after the repository call fn returned without error
AfterCall(fn) ==
    CASE fn = "GetTodaySuccessful" -> "GetAveragePerUser"
      [] fn = "GetAveragePerUser" -> "GetLatest"
      [] fn = "GetLatest" -> "GetStatusCounts"
      [] fn = "GetStatusCounts" -> "return"

\* the error GetSummary returns when the repository call fn returned err
SummaryErr(fn, err) ==
    CASE fn = "GetTodaySuccessful" ->
           Errorf("failed to get today's successful transactions: ", err)
      [] fn = "GetAveragePerUser" ->
           Errorf("failed to get average transactions per user: ", err)
      [] fn = "GetLatest" -> Errorf("failed to get latest transactions: ", err)
      [] fn = "GetStatusCounts" -> Errorf("failed to get status counts: ", err)

(* ------------------------------ handlers ------------------------------ *)
Digits == <<"0", "1", "2", "3", "4", "5", "6", "7", "8", "9">>

IsDigit(c) == \E i \in DOMAIN Digits : Digits[i] = c

DigitVal(c) == (CHOOSE i \in DOMAIN Digits : Digits[i] = c) - 1

RECURSIVE Decimal(_)
Decimal(s) == IF s = <<>> THEN 0 ELSE 10 * Decimal(SubSeq(s, 1, Len(s) - 1)) + DigitVal(s[Len(s)])

\* the digits of 2^bitSize - 1, the largest value of the width
MaxUint(bitSize) ==
    IF bitSize = 32
    THEN <<"4", "2", "9", "4", "9", "6", "7", "2", "9", "5">>
    ELSE <<"1", "8", "4", "4", "6", "7", "4", "4", "0", "7",
           "3", "7", "0", "9", "5", "5", "1", "6", "1", "5">>

RECURSIVE StripZeros(_)
StripZeros(s) == IF s # <<>> /\ Head(s) = "0" THEN StripZeros(Tail(s)) ELSE s

\* a <= b for digit strings of one length
RECURSIVE DigitsLeq(_, _)
DigitsLeq(a, b) ==
    IF a = <<>> THEN TRUE
    ELSE IF DigitVal(Head(a)) # DigitVal(Head(b)) THEN DigitVal(Head(a)) < DigitVal(Head(b))
    ELSE DigitsLeq(Tail(a), Tail(b))

InRange(s, bitSize) ==
    LET d == StripZeros(s)
        m == MaxUint(bitSize)
    IN  Len(d) < Len(m) \/ (Len(d) = Len(m) /\ DigitsLeq(d, m))

\* strconv.ParseUint(s, 10, bitSize): no sign, no blank, digits only, in range
ParseUint(s, bitSize) ==
    IF s = <<>> \/ \E i \in DOMAIN s : ~IsDigit(s[i])
    THEN [ok |-> FALSE, val |-> 0]
    ELSE IF ~InRange(s, bitSize)
         THEN [ok |-> FALSE, val |-> 0]
         ELSE [ok |-> TRUE, val |-> Decimal(s)]

\* c.ShouldBindJSON(&req) into CreateTransactionRequest: UserID is a uint
BindCreate(raw) == raw.syntax /\ raw.user_id >= 0

\* a faulty variant: zero passes
validateDecimalNotNegative(amount) == amount >= 0

\* handlers/transaction.go:36-39
validateDecimalPositive(amount) == amount > 0

\* validate:"required,min=1" and validate:"required,decimal_positive"
ValidCreate(raw) == raw.user_id >= 1 /\ validateDecimalPositive(raw.amount)

\* c.ShouldBindJSON(&req) into UpdateTransactionRequest
BindUpdate(raw) == raw.syntax

\* validate:"required,oneof=pending success failed"
ValidUpdate(raw) == raw.status \in {"pending", "success", "failed"}

\* c.ShouldBindQuery(&filters): an absent user_id is 0, anything else must
\* parse as a uint
BindQuery(raw) ==
    IF raw.idParam = <<>> THEN [ok |-> TRUE, val |-> 0] ELSE ParseUint(raw.idParam, 64)

OK(code) == [code |-> code, error |-> ""]

Fail(code, message) == [code |-> code, error |-> message]

CreateTransactionResponse(err) ==
    IF err # NoErr THEN Fail(500, err) ELSE OK(201)

\* a faulty variant: a service error answered as an internal error
GetTransactionsResponse500(err) ==
    IF err # NoErr THEN Fail(500, err) ELSE OK(200)

GetTransactionsResponse(err) ==
    IF err # NoErr THEN Fail(400, err) ELSE OK(200)

GetTransactionResponse(err) ==
    IF err # NoErr
    THEN IF err = "transaction not found"
         THEN Fail(404, "Transaction not found")
         ELSE Fail(500, err)
    ELSE OK(200)

UpdateTransactionResponse(err) ==
    IF err # NoErr
    THEN IF err = "transaction not found"
         THEN Fail(404, "Transaction not found")
         ELSE IF err = "invalid status"
              THEN Fail(400, "Invalid status")
              ELSE Fail(500, err)
    ELSE OK(200)

\* a faulty variant: no branch for not-found
DeleteTransactionResponseNo404(err) ==
    IF err # NoErr THEN Fail(500, err) ELSE OK(200)

DeleteTransactionResponse(err) ==
    IF err # NoErr
    THEN IF err = "transaction not found"
         THEN Fail(404, "Transaction not found")
         ELSE Fail(500, err)
    ELSE OK(200)

GetSummaryResponse(err) ==
    IF err # NoErr THEN Fail(500, err) ELSE OK(200)

(* --------------------------- request records -------------------------- *)
NoArgs == [id |-> 0, user_id |-> 0, amount |-> 0, status |-> "", limit |-> 0, offset |-> 0]

NoRaw == [idParam |-> <<>>, syntax |-> TRUE, user_id |-> 0, amount |-> 0, status |-> ""]

\* a repository call: its arguments (id, fields, tx, limit), the row it
\* returned (tx of a GetByID), the limit and offset it gave its statement, the
\* statements of it that failed, and the error it returned
NoCall == [fn |-> "", id |-> 0, fields |-> {}, tx |-> NoTx, limit |-> 0, offset |-> 0,
           failed |-> {}, ret |-> NoStoreErr]

NoResp == [code |-> 0, error |-> ""]

\* the zero DashboardSummary; amounts in thousandths, the average in
\* ten-thousandths
NoSummary == [today_successful_transactions |-> 0, today_successful_amount |-> 0,
              average_transaction_per_user |-> 0, latest_transactions |-> <<>>,
              status_counts |-> [success |-> 0, pending |-> 0, failed |-> 0]]

\* a faulty variant: the count is returned along with the error
TodayFailedKeepsCount(count) == [NoSummary EXCEPT !.today_successful_transactions = count]

\* return 0, decimal.Zero, err
TodayFailed(count) == NoSummary

\* acc, today and failed are the locals of GetSummary and of the repository
\* method it is in: the summary so far, the date GetTodaySuccessful asks for,
\* the statements whose error was dropped; snap is history, the table as the
\* Count statement of GetTodaySuccessful read it
Idle == [pc |-> "idle", op |-> "", via |-> "", raw |-> NoRaw, args |-> NoArgs, calls |-> <<>>,
         acc |-> NoSummary, today |-> 0, failed |-> {}, snap |-> <<>>]

\* list is the slice a list returned; summary is <<>> for a nil
\* *DashboardSummary and <<s>> for a pointer to s
NoResult == [op |-> "", via |-> "", raw |-> NoRaw, args |-> NoArgs, entered |-> FALSE,
             calls |-> <<>>, err |-> NoErr, tx |-> NoTx, list |-> <<>>, summary |-> <<>>,
             resp |-> NoResp]

\* db      the transactions table, id -> row
\* nextId  the table's auto-increment counter
\* now     the clock that stamps created_at and updated_at
\* slot    the request each slot is running: its method, arguments, the
\*         repository call it is at (pc) and the calls it made
\* last    what the latest step returned to a caller, NoResult if nothing
VARIABLES db, nextId, now, slot, last

vars == <<db, nextId, now, slot, last>>

Init ==
    /\ db = <<>>
    /\ nextId = 1
    /\ now = 1
    /\ slot = [r \in Slots |-> Idle]
    /\ last = NoResult

Response(op, err) ==
    CASE op = "create" -> CreateTransactionResponse(err)
      [] op = "list" -> GetTransactionsResponse(err)
      [] op = "get" -> GetTransactionResponse(err)
      [] op = "update" -> UpdateTransactionResponse(err)
      [] op = "delete" -> DeleteTransactionResponse(err)
      [] op = "summary" -> GetSummaryResponse(err)

\* the service returned err (and tx) to its caller; a handler answers
Returned(s, calls, err, tx) ==
    [op |-> s.op, via |-> s.via, raw |-> s.raw, args |-> s.args, entered |-> TRUE,
     calls |-> calls, err |-> err, tx |-> tx, list |-> <<>>, summary |-> <<>>,
     resp |-> IF s.via = "http" THEN Response(s.op, err) ELSE NoResp]

\* a handler answered 400 before calling its service
Rejected(op, raw, message) ==
    [NoResult EXCEPT !.op = op, !.via = "http", !.raw = raw, !.resp = Fail(400, message)]

Reject(op, raw, message) ==
    /\ last' = Rejected(op, raw, message)
    /\ UNCHANGED <<db, nextId, now, slot>>

\* a faulty variant: a repository call that failed is made a second time
FinishRetryOnce(r, call, err, tx) ==
    IF call.ret \in DriverErrs /\ \A k \in DOMAIN slot[r].calls : slot[r].calls[k].ret = NoStoreErr
    THEN /\ slot' = [slot EXCEPT ![r].calls = Append(@, call)]
         /\ last' = NoResult
    ELSE /\ slot' = [slot EXCEPT ![r] = Idle]
         /\ last' = Returned(slot[r], Append(slot[r].calls, call), err, tx)

Finish(r, call, err, tx) ==
    /\ slot' = [slot EXCEPT ![r] = Idle]
    /\ last' = Returned(slot[r], Append(slot[r].calls, call), err, tx)

\* GetTransactions returned the slice list
FinishList(r, call, list) ==
    /\ slot' = [slot EXCEPT ![r] = Idle]
    /\ last' = [Returned(slot[r], Append(slot[r].calls, call), NoErr, NoTx) EXCEPT !.list = list]

Continue(r, call, pc) ==
    /\ slot' = [slot EXCEPT ![r].pc = pc, ![r].calls = Append(@, call)]
    /\ last' = NoResult

\* the checks a service method makes before its first repository call
EntryErr(op, args) ==
    IF op = "update" /\ ~ValidStatus(args.status) THEN "invalid status"
    ELSE IF op = "list" /\ ~ValidStatusFilter(args.status) THEN "invalid status filter"
    ELSE NoErr

FirstCall(op) ==
    CASE op = "create" -> "Create"
      [] op = "list" -> "GetAll"
      [] op \in {"get", "update", "delete"} -> "GetByID"
      [] op \in {"summary", "today"} -> "GetTodaySuccessful"

\* a call of the service method op with args, directly or from its handler
Invoke(r, op, via, raw, args) ==
    LET s == [Idle EXCEPT !.pc = FirstCall(op), !.op = op, !.via = via, !.raw = raw,
                          !.args = args]
    IN  /\ IF EntryErr(op, args) # NoErr
           THEN /\ last' = Returned(s, <<>>, EntryErr(op, args), NoTx)
                /\ slot' = slot
           ELSE /\ slot' = [slot EXCEPT ![r] = s]
                /\ last' = NoResult
        /\ UNCHANGED <<db, nextId, now>>

\* ids are handed out up to max: a create starts only if one is left
CanCreate(max) == nextId + Cardinality({r \in Slots : slot[r].pc = "Create"}) <= max

GetByIDErrs(table, id) ==
    DriverErrs \cup (IF Exists(table, id) THEN {} ELSE {ErrRecordNotFound})

(* ----------------------- service methods, called ---------------------- *)
CreateTransaction(r, max, reqs) ==
    /\ slot[r].pc = "idle"
    /\ CanCreate(max)
    /\ \E req \in reqs : Invoke(r, "create", "svc", NoRaw, req)

GetTransaction(r, ids) ==
    /\ slot[r].pc = "idle"
    /\ \E id \in ids : Invoke(r, "get", "svc", NoRaw, [NoArgs EXCEPT !.id = id])

GetTransactions(r, filters) ==
    /\ slot[r].pc = "idle"
    /\ \E f \in filters : Invoke(r, "list", "svc", NoRaw, f)

UpdateTransactionStatus(r, ids, statuses) ==
    /\ slot[r].pc = "idle"
    /\ \E id \in ids, st \in statuses :
         Invoke(r, "update", "svc", NoRaw, [NoArgs EXCEPT !.id = id, !.status = st])

DeleteTransaction(r, ids) ==
    /\ slot[r].pc = "idle"
    /\ \E id \in ids : Invoke(r, "delete", "svc", NoRaw, [NoArgs EXCEPT !.id = id])

(* ------------------- service methods at a repository call ------------- *)
CreateTransaction_Create(r) ==
    /\ slot[r].pc = "Create"
    /\ LET tx == NewTransaction(slot[r].args)
           call == [NoCall EXCEPT !.fn = "Create", !.tx = tx]
       IN  \/ /\ \E e \in DriverErrs :
                   Finish(r, [call EXCEPT !.ret = e],
                          Errorf("failed to create transaction: ", e), NoTx)
              /\ UNCHANGED <<db, nextId, now>>
           \/ /\ db' = Create(db, tx, nextId, now)
              /\ nextId' = nextId + 1
              /\ Finish(r, call, NoErr, Created(tx, nextId, now))
              /\ UNCHANGED now

GetTransaction_GetByID(r) ==
    /\ slot[r].pc = "GetByID"
    /\ slot[r].op = "get"
    /\ LET id == slot[r].args.id
           call == [NoCall EXCEPT !.fn = "GetByID", !.id = id]
       IN  \/ \E e \in GetByIDErrs(db, id) :
                Finish(r, [call EXCEPT !.ret = e], LookupErr(e), NoTx)
           \/ /\ Exists(db, id)
              /\ Finish(r, [call EXCEPT !.tx = GetByID(db, id)], NoErr, GetByID(db, id))
    /\ UNCHANGED <<db, nextId, now>>

GetTransactions_GetAll(r) ==
    /\ slot[r].pc = "GetAll"
    /\ LET filters == slot[r].args
           call == [NoCall EXCEPT !.fn = "GetAll",
                                  !.limit = EffectiveLimit(filters.limit),
                                  !.offset = EffectiveOffset(filters.offset)]
       IN  \/ \E e \in DriverErrs :
                Finish(r, [call EXCEPT !.ret = e],
                       Errorf("failed to get transactions: ", e), NoTx)
           \/ \E list \in GetAll(db, filters) : FinishList(r, call, list)
    /\ UNCHANGED <<db, nextId, now>>

UpdateTransactionStatus_GetByID(r) ==
    /\ slot[r].pc = "GetByID"
    /\ slot[r].op = "update"
    /\ LET id == slot[r].args.id
           call == [NoCall EXCEPT !.fn = "GetByID", !.id = id]
       IN  \/ \E e \in GetByIDErrs(db, id) :
                Finish(r, [call EXCEPT !.ret = e], LookupErr(e), NoTx)
           \/ /\ Exists(db, id)
              /\ Continue(r, [call EXCEPT !.tx = GetByID(db, id)], "Update")
    /\ UNCHANGED <<db, nextId, now>>

\* a faulty variant: the row the lookup returned is saved whole with its new
\* status, which writes it anew when it is gone
UpdateTransactionStatus_Save(r) ==
    /\ slot[r].pc = "Update"
    /\ LET id == slot[r].args.id
           updates == StatusUpdates(slot[r].args.status)
           call == [NoCall EXCEPT !.fn = "Update", !.id = id, !.fields = DOMAIN updates]
           found == slot[r].calls[Len(slot[r].calls)].tx
       IN  \/ /\ \E e \in DriverErrs :
                   Finish(r, [call EXCEPT !.ret = e],
                          Errorf("failed to update transaction: ", e), NoTx)
              /\ db' = db
           \/ /\ db' = (id :> [found EXCEPT !.status = slot[r].args.status,
                                            !.updated_at = now]) @@ db
              /\ Finish(r, call, NoErr, NoTx)
    /\ UNCHANGED <<nextId, now>>

UpdateTransactionStatus_Update(r) ==
    /\ slot[r].pc = "Update"
    /\ LET id == slot[r].args.id
           updates == StatusUpdates(slot[r].args.status)
           call == [NoCall EXCEPT !.fn = "Update", !.id = id, !.fields = DOMAIN updates]
       IN  \/ /\ \E e \in DriverErrs :
                   Finish(r, [call EXCEPT !.ret = e],
                          Errorf("failed to update transaction: ", e), NoTx)
              /\ db' = db
           \/ /\ db' = Update(db, id, updates, now)
              /\ Finish(r, call, NoErr, NoTx)
    /\ UNCHANGED <<nextId, now>>

DeleteTransaction_GetByID(r) ==
    /\ slot[r].pc = "GetByID"
    /\ slot[r].op = "delete"
    /\ LET id == slot[r].args.id
           call == [NoCall EXCEPT !.fn = "GetByID", !.id = id]
       IN  \/ \E e \in GetByIDErrs(db, id) :
                Finish(r, [call EXCEPT !.ret = e], LookupErr(e), NoTx)
           \/ /\ Exists(db, id)
              /\ Continue(r, [call EXCEPT !.tx = GetByID(db, id)], "Delete")
    /\ UNCHANGED <<db, nextId, now>>

\* a faulty variant: the row is gone although the statement reports an error
DeleteTransaction_DeleteThenFail(r) ==
    /\ slot[r].pc = "Delete"
    /\ LET id == slot[r].args.id
           call == [NoCall EXCEPT !.fn = "Delete", !.id = id]
       IN  \/ /\ \E e \in DriverErrs :
                   Finish(r, [call EXCEPT !.ret = e],
                          Errorf("failed to delete transaction: ", e), NoTx)
              /\ db' = Delete(db, id)
           \/ /\ db' = Delete(db, id)
              /\ Finish(r, call, NoErr, NoTx)
    /\ UNCHANGED <<nextId, now>>

DeleteTransaction_Delete(r) ==
    /\ slot[r].pc = "Delete"
    /\ LET id == slot[r].args.id
           call == [NoCall EXCEPT !.fn = "Delete", !.id = id]
       IN  \/ /\ \E e \in DriverErrs :
                   Finish(r, [call EXCEPT !.ret = e],
                          Errorf("failed to delete transaction: ", e), NoTx)
              /\ db' = db
           \/ /\ db' = Delete(db, id)
              /\ Finish(r, call, NoErr, NoTx)
    /\ UNCHANGED <<nextId, now>>

(* ----------------------- GetSummary and its queries -------------------- *)
GetSummary(r) ==
    /\ slot[r].pc = "idle"
    /\ Invoke(r, "summary", "svc", NoRaw, NoArgs)

\* the repository method GetTodaySuccessful called on its own; its count and
\* sum are returned in the summary fields of the same names
GetTodaySuccessful(r) ==
    /\ slot[r].pc = "idle"
    /\ Invoke(r, "today", "svc", NoRaw, NoArgs)

\* the repository call returned err: GetSummary returns nil and its error; a
\* GetTodaySuccessful called on its own returns zeros and err
FailSummary(r, call, err) ==
    IF slot[r].op = "today"
    THEN /\ slot' = [slot EXCEPT ![r] = Idle]
         /\ last' = [Returned(slot[r], <<[call EXCEPT !.ret = err]>>, err.msg, NoTx)
                        EXCEPT !.summary =
                            <<TodayFailed(slot[r].acc.today_successful_transactions)>>]
    ELSE Finish(r, [call EXCEPT !.ret = err], SummaryErr(call.fn, err), NoTx)

\* the repository call returned without error and GetSummary holds acc
Advance(r, call, acc) ==
    IF slot[r].op = "today" \/ AfterCall(call.fn) = "return"
    THEN /\ slot' = [slot EXCEPT ![r] = Idle]
         /\ last' = [Returned(slot[r], Append(slot[r].calls, call), NoErr, NoTx)
                        EXCEPT !.summary = <<acc>>]
    ELSE /\ slot' = [slot EXCEPT ![r].pc = AfterCall(call.fn), ![r].calls = Append(@, call),
                                  ![r].acc = acc, ![r].today = 0, ![r].failed = {},
                                  ![r].snap = <<>>]
         /\ last' = NoResult

\* GetTodaySuccessful, the Count statement
GetSummary_GetTodaySuccessful_Count(r) ==
    /\ slot[r].pc = "GetTodaySuccessful"
    /\ LET today == Date(now)
           call == [NoCall EXCEPT !.fn = "GetTodaySuccessful"]
       IN  \/ \E e \in DriverErrs : FailSummary(r, [call EXCEPT !.failed = {"count"}], e)
           \/ /\ slot' = [slot EXCEPT
                            ![r].pc = "GetTodaySuccessful.Sum",
                            ![r].today = today,
                            ![r].snap = db,
                            ![r].acc.today_successful_transactions =
                                Cardinality(TodaySuccessful(db, today))]
              /\ last' = NoResult
    /\ UNCHANGED <<db, nextId, now>>

\* GetTodaySuccessful, the SUM statement
GetSummary_GetTodaySuccessful_Sum(r) ==
    /\ slot[r].pc = "GetTodaySuccessful.Sum"
    /\ LET call == [NoCall EXCEPT !.fn = "GetTodaySuccessful"]
       IN  \/ \E e \in DriverErrs : FailSummary(r, [call EXCEPT !.failed = {"sum"}], e)
           \/ Advance(r, call,
                      [slot[r].acc EXCEPT !.today_successful_amount =
                           SumAmount(db, TodaySuccessfulSum(db, slot[r].today))])
    /\ UNCHANGED <<db, nextId, now>>

GetSummary_GetAveragePerUser(r) ==
    /\ slot[r].pc = "GetAveragePerUser"
    /\ LET call == [NoCall EXCEPT !.fn = "GetAveragePerUser"]
       IN  \/ \E e \in DriverErrs : FailSummary(r, [call EXCEPT !.failed = {"avg"}], e)
           \/ Advance(r, call,
                      [slot[r].acc EXCEPT !.average_transaction_per_user = AveragePerUser(db)])
    /\ UNCHANGED <<db, nextId, now>>

GetSummary_GetLatest(r) ==
    /\ slot[r].pc = "GetLatest"
    /\ LET call == [NoCall EXCEPT !.fn = "GetLatest", !.limit = LatestLimit]
       IN  \/ \E e \in DriverErrs : FailSummary(r, [call EXCEPT !.failed = {"find"}], e)
           \/ \E list \in GetLatest(db, LatestLimit) :
                Advance(r, call, [slot[r].acc EXCEPT !.latest_transactions = list])
    /\ UNCHANGED <<db, nextId, now>>

\* GetStatusCounts, the GROUP BY statement: its rows are scanned into a slice
\* that is dropped, its error is returned
GetSummary_GetStatusCounts_Group(r) ==
    /\ slot[r].pc = "GetStatusCounts"
    /\ LET call == [NoCall EXCEPT !.fn = "GetStatusCounts"]
       IN  \/ \E e \in DriverErrs : FailSummary(r, [call EXCEPT !.failed = {"group"}], e)
           \/ /\ slot' = [slot EXCEPT ![r].pc = "GetStatusCounts.success"]
              /\ last' = NoResult
    /\ UNCHANGED <<db, nextId, now>>

\* GetStatusCounts, the three Count statements: the error of a statement is
\* not looked at, and its count stays 0
GetSummary_GetStatusCounts_Count(r) ==
    /\ \E st \in Statuses :
         /\ slot[r].pc = "GetStatusCounts." \o st
         /\ \E ok \in BOOLEAN :
              LET failed == IF ok THEN slot[r].failed ELSE slot[r].failed \cup {st}
                  acc == IF ok
                         THEN [slot[r].acc EXCEPT !.status_counts[st] = CountStatus(db, st)]
                         ELSE slot[r].acc
              IN  CASE st = "success" ->
                         /\ slot' = [slot EXCEPT ![r].pc = "GetStatusCounts.pending",
                                                  ![r].acc = acc, ![r].failed = failed]
                         /\ last' = NoResult
                    [] st = "pending" ->
                         /\ slot' = [slot EXCEPT ![r].pc = "GetStatusCounts.failed",
                                                  ![r].acc = acc, ![r].failed = failed]
                         /\ last' = NoResult
                    [] st = "failed" ->
                         Advance(r, [NoCall EXCEPT !.fn = "GetStatusCounts",
                                                   !.failed = failed], acc)
    /\ UNCHANGED <<db, nextId, now>>

\* the clock moves on
Tick ==
    /\ now < MaxClock
    /\ now' = now + 1
    /\ last' = NoResult
    /\ UNCHANGED <<db, nextId, slot>>

Steps ==
    \E r \in Slots :
        \/ CreateTransaction_Create(r)
        \/ GetTransaction_GetByID(r)
        \/ GetTransactions_GetAll(r)
        \/ UpdateTransactionStatus_GetByID(r)
        \/ UpdateTransactionStatus_Update(r)
        \/ DeleteTransaction_GetByID(r)
        \/ DeleteTransaction_Delete(r)

(* ------------------------- handlers, on a request --------------------- *)
HandlerCreateTransaction(r, max, bodies) ==
    /\ slot[r].pc = "idle"
    /\ CanCreate(max)
    /\ \E raw \in bodies :
         IF ~BindCreate(raw) THEN Reject("create", raw, "Invalid request body")
         ELSE IF ~ValidCreate(raw) THEN Reject("create", raw, "Validation failed")
         ELSE Invoke(r, "create", "http", raw,
                     [NoArgs EXCEPT !.user_id = raw.user_id, !.amount = raw.amount])

HandlerGetTransactions(r, queries) ==
    /\ slot[r].pc = "idle"
    /\ \E raw \in queries :
         IF ~BindQuery(raw).ok THEN Reject("list", raw, "Invalid query parameters")
         ELSE Invoke(r, "list", "http", raw,
                     [NoArgs EXCEPT !.user_id = BindQuery(raw).val, !.status = raw.status])

HandlerGetTransaction(r, params) ==
    /\ slot[r].pc = "idle"
    /\ \E idParam \in params :
         LET raw == [NoRaw EXCEPT !.idParam = idParam]
             id == ParseUint(idParam, 32)
         IN  IF ~id.ok THEN Reject("get", raw, "Invalid transaction ID")
             ELSE Invoke(r, "get", "http", raw, [NoArgs EXCEPT !.id = id.val])

HandlerUpdateTransaction(r, params, bodies) ==
    /\ slot[r].pc = "idle"
    /\ \E idParam \in params, body \in bodies :
         LET raw == [body EXCEPT !.idParam = idParam]
             id == ParseUint(idParam, 32)
         IN  IF ~id.ok THEN Reject("update", raw, "Invalid transaction ID")
             ELSE IF ~BindUpdate(raw) THEN Reject("update", raw, "Invalid request body")
             ELSE IF ~ValidUpdate(raw) THEN Reject("update", raw, "Validation failed")
             ELSE Invoke(r, "update", "http", raw,
                         [NoArgs EXCEPT !.id = id.val, !.status = raw.status])

HandlerGetSummary(r) ==
    /\ slot[r].pc = "idle"
    /\ Invoke(r, "summary", "http", NoRaw, NoArgs)

HandlerDeleteTransaction(r, params) ==
    /\ slot[r].pc = "idle"
    /\ \E idParam \in params :
         LET raw == [NoRaw EXCEPT !.idParam = idParam]
             id == ParseUint(idParam, 32)
         IN  IF ~id.ok THEN Reject("delete", raw, "Invalid transaction ID")
             ELSE Invoke(r, "delete", "http", raw, [NoArgs EXCEPT !.id = id.val])

(* ------------------------------- inputs ------------------------------- *)
\* one request at a time
Single == {1}

\* a second request beside it
Writer == {2}

SvcIds == 1..(MaxRows + 1)
SvcReqs == {[NoArgs EXCEPT !.user_id = u, !.amount = a] : u \in {1, 2}, a \in {5, 100500}}
SvcStatuses == {"pending", "success", "failed", "bogus", ""}
SvcFilters == {[NoArgs EXCEPT !.user_id = u, !.status = st] :
                 u \in {0, 1}, st \in {"", "success", "bogus"}}

ConcIds == 1..(ConcRows + 1)
ConcReqs == {[NoArgs EXCEPT !.user_id = 1, !.amount = 100500]}
ConcStatuses == {"success", "bogus"}

HttpParams == {<<"1">>, <<"0", "2">>, <<"9">>, <<"1", "a">>, <<"-", "1">>,
               <<"4", "2", "9", "4", "9", "6", "7", "2", "9", "6">>}
HttpCreateBodies ==
    {[NoRaw EXCEPT !.syntax = FALSE]} \cup
    {[NoRaw EXCEPT !.user_id = u, !.amount = a] :
       u \in {0 - 1, 0, 1}, a \in {0 - 1000, 0, 4, 100500}}
HttpUpdateBodies ==
    {[NoRaw EXCEPT !.syntax = FALSE]} \cup
    {[NoRaw EXCEPT !.status = st] : st \in {"success", "failed", "bogus", ""}}
HttpQueries ==
    {[NoRaw EXCEPT !.idParam = u, !.status = st] :
       u \in {<<>>, <<"1">>, <<"a">>}, st \in {"", "bogus"}}

DashParams == {<<"1">>, <<"2">>}
DashCreateBodies == {[NoRaw EXCEPT !.user_id = u, !.amount = 100500] : u \in {1, 2}}
DashUpdateBodies == {[NoRaw EXCEPT !.status = st] : st \in {"success", "failed"}}

\* the table after n creates, one per tick, alternating between two users,
\* every third transaction updated to success since
Table(n) ==
    [id \in 1..n |->
        [NoTx EXCEPT !.id = id, !.user_id = 1 + (id % 2), !.amount = 100500,
                     !.status = IF id % 3 = 0 THEN "success" ELSE "pending",
                     !.created_at = id, !.updated_at = id]]

PageFilters ==
    {[NoArgs EXCEPT !.user_id = u, !.status = st, !.limit = l, !.offset = o] :
       u \in {0, 1}, st \in {"", "success", "failed"}, l \in {0 - 1, 0, 1, 20, 21, 100, 101, 150}, o \in {0 - 5, 0, 1, 25}}

TodayStatuses == {"success", "failed"}

(* --------------------------- specifications --------------------------- *)
\* the service methods called one at a time
Next ==
    \/ \E r \in Single :
        \/ CreateTransaction(r, MaxRows, SvcReqs)
        \/ GetTransaction(r, SvcIds)
        \/ GetTransactions(r, SvcFilters)
        \/ UpdateTransactionStatus(r, SvcIds, SvcStatuses)
        \/ DeleteTransaction(r, SvcIds)
    \/ Steps

Spec == Init /\ [][Next]_vars

\* the service methods called concurrently
NextConc ==
    \/ \E r \in Slots :
        \/ CreateTransaction(r, ConcRows, ConcReqs)
        \/ UpdateTransactionStatus(r, ConcIds, ConcStatuses)
        \/ DeleteTransaction(r, ConcIds)
    \/ \E r \in Slots :
        \/ CreateTransaction_Create(r)
        \/ UpdateTransactionStatus_GetByID(r)
        \/ UpdateTransactionStatus_Update(r)
        \/ DeleteTransaction_GetByID(r)
        \/ DeleteTransaction_Delete(r)

SpecConc == Init /\ [][NextConc]_vars

\* HTTP requests, one at a time
NextHttp ==
    \/ \E r \in Single :
        \/ HandlerCreateTransaction(r, MaxRows, HttpCreateBodies)
        \/ HandlerGetTransactions(r, HttpQueries)
        \/ HandlerGetTransaction(r, HttpParams)
        \/ HandlerUpdateTransaction(r, HttpParams, HttpUpdateBodies)
        \/ HandlerDeleteTransaction(r, HttpParams)
    \/ Steps

SpecHttp == Init /\ [][NextHttp]_vars

\* HTTP requests and the dashboard, one at a time, as the days pass
NextDash ==
    \/ \E r \in Single :
        \/ HandlerCreateTransaction(r, ConcRows, DashCreateBodies)
        \/ HandlerGetTransaction(r, DashParams)
        \/ HandlerUpdateTransaction(r, DashParams, DashUpdateBodies)
        \/ HandlerDeleteTransaction(r, DashParams)
        \/ HandlerGetSummary(r)
        \/ GetSummary(r)
    \/ \E r \in Single :
        \/ CreateTransaction_Create(r)
        \/ GetTransaction_GetByID(r)
        \/ UpdateTransactionStatus_GetByID(r)
        \/ UpdateTransactionStatus_Update(r)
        \/ DeleteTransaction_GetByID(r)
        \/ DeleteTransaction_Delete(r)
        \/ GetSummary_GetTodaySuccessful_Count(r)
        \/ GetSummary_GetTodaySuccessful_Sum(r)
        \/ GetSummary_GetAveragePerUser(r)
        \/ GetSummary_GetLatest(r)
        \/ GetSummary_GetStatusCounts_Group(r)
        \/ GetSummary_GetStatusCounts_Count(r)
    \/ Tick

SpecDash == Init /\ [][NextDash]_vars

\* GetTodaySuccessful in the first slot, writes in the second, days passing
NextToday ==
    \/ \E r \in Single :
        \/ GetTodaySuccessful(r)
        \/ GetSummary_GetTodaySuccessful_Count(r)
        \/ GetSummary_GetTodaySuccessful_Sum(r)
    \/ \E r \in Writer :
        \/ CreateTransaction(r, ConcRows, ConcReqs)
        \/ UpdateTransactionStatus(r, ConcIds, TodayStatuses)
        \/ DeleteTransaction(r, ConcIds)
        \/ CreateTransaction_Create(r)
        \/ UpdateTransactionStatus_GetByID(r)
        \/ UpdateTransactionStatus_Update(r)
        \/ DeleteTransaction_GetByID(r)
        \/ DeleteTransaction_Delete(r)
    \/ Tick

SpecToday == Init /\ [][NextToday]_vars

\* lists over a table of any size up to PageRows
InitPage ==
    /\ \E n \in 0..PageRows :
         /\ db = Table(n)
         /\ nextId = n + 1
         /\ now = n + 1
    /\ slot = [r \in Slots |-> Idle]
    /\ last = NoResult

NextPage ==
    \E r \in Single :
        \/ GetTransactions(r, PageFilters)
        \/ GetTransactions_GetAll(r)

SpecPage == InitPage /\ [][NextPage]_vars

(* ------------------------------- claims ------------------------------- *)
\* the step in which slot r's service method runs its statement at pc
Runs(r, pc) == slot[r].pc = pc /\ slot'[r] # slot[r]

\* C1: for every creation request with user_id >= 1 and amount > 0, the
\* transaction CreateTransaction hands to Create, and the one it returns, have
\* status "pending" and exactly the user_id and amount of the request.
C1_CreatePending ==
    (last.op = "create" /\ last.entered /\ last.args.user_id >= 1 /\ last.args.amount > 0) =>
        /\ Len(last.calls) = 1
        /\ last.calls[1].fn = "Create"
        /\ last.calls[1].tx.status = "pending"
        /\ last.calls[1].tx.user_id = last.args.user_id
        /\ last.calls[1].tx.amount = last.args.amount
        /\ (last.err = NoErr) = (last.calls[1].ret = NoStoreErr)
        /\ last.err = NoErr =>
             /\ last.tx.status = "pending"
             /\ last.tx.user_id = last.args.user_id
             /\ last.tx.amount = last.args.amount

\* a create of 0.005 returned: the caller holds 0.005, the row holds 0.01
C1_Witness ==
    /\ last.op = "create"
    /\ last.err = NoErr
    /\ last.args.amount = 5
    /\ last.tx.amount = 5
    /\ Exists(db, last.tx.id)
    /\ db[last.tx.id].amount = 10
    /\ db[last.tx.id].status = "pending"

\* C2: in every state reached by interleaved CreateTransaction,
\* UpdateTransactionStatus and DeleteTransaction calls with any arguments,
\* every persisted transaction has a status in {pending, success, failed}.
C2_StatusInSet == \A id \in DOMAIN db : db[id].status \in Statuses

\* an update to "bogus" was turned away while another update is at its
\* statement and the row already left pending
C2_Witness ==
    /\ last.op = "update"
    /\ last.args.status = "bogus"
    /\ \E r \in Slots : slot[r].pc = "Update"
    /\ \E id \in DOMAIN db : db[id].status = "success"

\* C3: for every status outside {pending, success, failed},
\* UpdateTransactionStatus returns "invalid status" and GetTransactions with
\* that non-empty filter returns "invalid status filter"; neither makes a
\* repository call, and the table is unchanged.
C3_InvalidStatusRejected ==
    [][/\ (last'.op = "update" /\ last'.entered /\ last'.args.status \notin Statuses) =>
            /\ last'.err = "invalid status"
            /\ last'.calls = <<>>
            /\ db' = db /\ nextId' = nextId
       /\ (last'.op = "list" /\ last'.entered
             /\ last'.args.status # "" /\ last'.args.status \notin Statuses) =>
            /\ last'.err = "invalid status filter"
            /\ last'.calls = <<>>
            /\ db' = db /\ nextId' = nextId
       /\ \A r \in Slots :
            /\ slot'[r].op = "update" => slot'[r].args.status \in Statuses
            /\ slot'[r].op = "list" => slot'[r].args.status \in Statuses \cup {""}]_vars

C3_Witness ==
    /\ last.op = "list"
    /\ last.args.status = "bogus"
    /\ last.err = "invalid status filter"
    /\ last.calls = <<>>
    /\ db # <<>>

\* C4: user_id and amount (and id, created_at) of a persisted transaction
\* never change; the statement of UpdateTransactionStatus changes status and
\* updated_at of the row with the given id only, and no other row.
C4_OnlyStatusChanges ==
    [][/\ \A id \in DOMAIN db \cap DOMAIN db' :
            /\ db'[id].id = db[id].id
            /\ db'[id].user_id = db[id].user_id
            /\ db'[id].amount = db[id].amount
            /\ db'[id].created_at = db[id].created_at
       /\ \A r \in Slots : Runs(r, "Update") =>
            /\ DOMAIN db' = DOMAIN db
            /\ \A id \in DOMAIN db : id # slot[r].args.id => db'[id] = db[id]]_vars

\* an update changed one of two rows
C4_Witness ==
    /\ last.op = "update"
    /\ last.err = NoErr
    /\ \E id, other \in DOMAIN db :
         /\ id = last.args.id
         /\ other # id
         /\ db[id].status = "success"
         /\ db[other].status = "pending"
         /\ db[id].amount = 100500

\* C5: with the repository working, UpdateTransactionStatus(id, s) on a
\* transaction whose status is already s returns no error, still runs Update,
\* and leaves the row as it was but for updated_at (so a second application
\* of an update stores what the first stored).
C5_SameStatus ==
    (/\ last.op = "update"
     /\ Len(last.calls) >= 1
     /\ last.calls[1].ret = NoStoreErr
     /\ last.calls[1].tx.status = last.args.status) =>
        /\ Len(last.calls) = 2
        /\ last.calls[2].fn = "Update"
        /\ last.calls[2].ret = NoStoreErr =>
             /\ last.err = NoErr
             /\ Exists(db, last.args.id)
             /\ db[last.args.id] =
                  [last.calls[1].tx EXCEPT !.updated_at = db[last.args.id].updated_at]

C5_Witness ==
    /\ last.op = "update"
    /\ last.err = NoErr
    /\ Len(last.calls) = 2
    /\ last.args.status = "success"
    /\ last.calls[1].tx.status = "success"
    /\ Exists(db, last.args.id)
    /\ db[last.args.id].status = "success"

\* C6: DeleteTransaction(id) for an id without a row never calls Delete; when
\* the lookup reports not-found it returns "transaction not found" and the
\* delete handler answers 404; Delete is called only after a lookup that
\* returned a row without error.
C6_DeleteNotFound ==
    [][/\ \A r \in Slots : (Runs(r, "GetByID") /\ slot[r].op = "delete") =>
            /\ ~Exists(db, slot[r].args.id) =>
                 /\ slot'[r].pc = "idle"
                 /\ Len(last'.calls) = 1
                 /\ last'.calls[1].fn = "GetByID"
                 /\ last'.calls[1].ret # NoStoreErr
                 /\ last'.calls[1].ret \notin DriverErrs =>
                      /\ last'.err = "transaction not found"
                      /\ last'.resp.code = 404
                 /\ db' = db
            /\ slot'[r].pc = "Delete" =>
                 /\ Exists(db, slot[r].args.id)
                 /\ slot'[r].calls[1].ret = NoStoreErr
       /\ (last'.op = "delete" /\ Len(last'.calls) >= 1 /\ last'.calls[1].ret # NoStoreErr) =>
            /\ Len(last'.calls) = 1
            /\ db' = db]_vars

C6_Witness ==
    /\ last.op = "delete"
    /\ last.err = "transaction not found"
    /\ last.resp.code = 404
    /\ Len(last.calls) = 1
    /\ db # <<>>
    /\ ~Exists(db, last.args.id)

\* the repository calls of one UpdateTransactionStatus(args), so far
UpdateCalls(args, calls) ==
    /\ Len(calls) <= 2
    /\ Len(calls) >= 1 =>
         /\ args.status \in Statuses
         /\ calls[1].fn = "GetByID"
         /\ calls[1].id = args.id
    /\ Len(calls) = 2 =>
         /\ calls[1].ret = NoStoreErr
         /\ calls[1].tx.id = args.id
         /\ calls[2].fn = "Update"
         /\ calls[2].id = args.id
         /\ calls[2].fields = {"status"}

\* C7: one UpdateTransactionStatus call validates the status, then calls
\* GetByID(id), then Update(id, {status}); Update is called only after GetByID
\* returned a transaction, with the single field status, and never after
\* GetByID reported not-found or another error.
C7_UpdateOrder ==
    /\ last.op = "update" => UpdateCalls(last.args, last.calls)
    /\ \A r \in Slots : slot[r].op = "update" =>
         /\ UpdateCalls(slot[r].args, slot[r].calls)
         /\ slot[r].pc = "GetByID" => slot[r].calls = <<>>
         /\ slot[r].pc = "Update" => Len(slot[r].calls) = 1

C7_Witness ==
    /\ last.op = "update"
    /\ last.args.status = "failed"
    /\ Len(last.calls) = 2
    /\ last.calls[2].fields = {"status"}
    /\ Exists(db, last.args.id)
    /\ db[last.args.id].status = "failed"

NonNumeric(s) ==
    s = <<>> \/ \E i \in DOMAIN s : s[i] \notin {"0", "1", "2", "3", "4", "5", "6", "7", "8", "9"}

\* C8: on the get-by-id, update and delete endpoints the answer is 404 exactly
\* when the lookup reported not-found; any other failure of a repository call
\* (lookup, update, delete) is answered 500; a non-numeric id is answered 400
\* without a call of the service.
C8_NotFoundIff404 ==
    (last.via = "http" /\ last.op \in {"get", "update", "delete"}) =>
        /\ NonNumeric(last.raw.idParam) =>
             /\ last.resp.code = 400
             /\ ~last.entered
             /\ last.calls = <<>>
        /\ (last.resp.code = 404) =
             (/\ Len(last.calls) >= 1
              /\ last.calls[1].fn = "GetByID"
              /\ last.calls[1].ret = ErrRecordNotFound)
        /\ \A i \in DOMAIN last.calls :
             last.calls[i].ret \in DriverErrs => last.resp.code = 500

\* a failed lookup whose text reads "transaction not found" is answered 500
C8_Witness ==
    /\ last.op = "get"
    /\ last.via = "http"
    /\ Len(last.calls) = 1
    /\ last.calls[1].ret.msg = "transaction not found"
    /\ last.resp.code = 500

\* C9: the list endpoint answers 400 for every error GetTransactions returns
\* (the invalid status filter, a failure of GetAll), never 500, and 200
\* exactly when the service returns no error.
C9_ListErrors400 ==
    (last.via = "http" /\ last.op = "list") =>
        /\ last.resp.code \in {200, 400}
        /\ (last.entered /\ last.err # NoErr) => last.resp.code = 400
        /\ (last.resp.code = 200) = (last.entered /\ last.err = NoErr)
        /\ (last.entered /\ last.raw.status \notin Statuses \cup {""}) =>
             last.err = "invalid status filter"
        /\ (Len(last.calls) = 1 /\ last.calls[1].ret \in DriverErrs) => last.err # NoErr

C9_Witness ==
    /\ last.via = "http"
    /\ last.op = "list"
    /\ Len(last.calls) = 1
    /\ last.calls[1].ret \in DriverErrs
    /\ last.resp.code = 400

\* C10: the create endpoint answers 400 without calling the service, and
\* persists nothing, when the body is malformed or user_id < 1 or amount <= 0;
\* it answers 500 for every error CreateTransaction returns, and 201 with the
\* created transaction exactly when the service succeeds.
C10_CreateResponses ==
    [][(last'.via = "http" /\ last'.op = "create") =>
         /\ (~last'.raw.syntax \/ last'.raw.user_id < 1 \/ last'.raw.amount <= 0) =>
              /\ last'.resp.code = 400
              /\ ~last'.entered
              /\ last'.calls = <<>>
              /\ db' = db /\ nextId' = nextId
         /\ (last'.entered /\ last'.err # NoErr) => last'.resp.code = 500
         /\ (last'.resp.code = 201) = (last'.entered /\ last'.err = NoErr)
         /\ last'.resp.code = 201 =>
              /\ last'.tx.id \in DOMAIN db' \ DOMAIN db
              /\ last'.tx.user_id = last'.raw.user_id
              /\ last'.tx.amount = last'.raw.amount
              /\ last'.tx.status = "pending"]_vars

C10_Witness ==
    /\ last.via = "http"
    /\ last.op = "create"
    /\ last.raw.user_id = 1
    /\ last.raw.amount = 0
    /\ last.resp.code = 400
    /\ db # <<>>

SummaryOrder == <<"GetTodaySuccessful", "GetAveragePerUser", "GetLatest", "GetStatusCounts">>

SummaryNames ==
    <<"failed to get today's successful transactions: ",
      "failed to get average transactions per user: ",
      "failed to get latest transactions: ",
      "failed to get status counts: ">>

\* the repository calls of one GetSummary, so far: in the order of
\* SummaryOrder, none after a call that returned an error, GetLatest with 10
SummaryCalls(calls) ==
    /\ Len(calls) <= 4
    /\ \A k \in DOMAIN calls :
         /\ calls[k].fn = SummaryOrder[k]
         /\ calls[k].fn = "GetLatest" => calls[k].limit = 10
         /\ k < Len(calls) => calls[k].ret = NoStoreErr

\* C11: GetSummary calls GetTodaySuccessful, GetAveragePerUser, GetLatest(10),
\* GetStatusCounts in this order; when the k-th call returns an error no later
\* call is made, and GetSummary returns a nil summary and an error that names
\* the k-th query; it returns a summary only after all four calls.
C11_SummaryOrder ==
    /\ last.op = "summary" =>
         /\ SummaryCalls(last.calls)
         /\ Len(last.calls) >= 1
         /\ LET k == Len(last.calls)
            IN  IF last.calls[k].ret # NoStoreErr
                THEN /\ last.summary = <<>>
                     /\ last.err = SummaryNames[k] \o last.calls[k].ret.msg
                ELSE /\ k = 4
                     /\ last.err = NoErr
                     /\ Len(last.summary) = 1
    /\ \A r \in Slots : slot[r].op = "summary" =>
         /\ SummaryCalls(slot[r].calls)
         /\ \A k \in DOMAIN slot[r].calls : slot[r].calls[k].ret = NoStoreErr
         /\ Len(slot[r].calls) < 4
         /\ LET fn == SummaryOrder[Len(slot[r].calls) + 1]
            IN  slot[r].pc \in {fn} \cup {fn \o "." \o stmt :
                                             stmt \in {"Sum", "success", "pending", "failed"}}

\* the third query failed after two answered, over a table with a row
C11_Witness ==
    /\ last.op = "summary"
    /\ Len(last.calls) = 3
    /\ last.calls[3].fn = "GetLatest"
    /\ last.calls[3].ret \in DriverErrs
    /\ last.err = "failed to get latest transactions: connection refused"
    /\ last.summary = <<>>
    /\ DOMAIN db # {}

\* C12: if any statement made for a dashboard summary fails, the three Count
\* statements of GetStatusCounts included, the repository call returns an
\* error, GetSummary returns no summary and the endpoint answers 500; no
\* summary is returned that holds a field whose statement failed.
C12_AllOrNothing ==
    last.op = "summary" =>
        \A k \in DOMAIN last.calls :
            last.calls[k].failed # {} =>
                /\ last.calls[k].ret # NoStoreErr
                /\ last.err # NoErr
                /\ last.summary = <<>>
                /\ last.via = "http" => last.resp.code = 500

\* the rows of the table that the filters of a list select
Matching(filters) == {id \in DOMAIN db : Matches(db[id], filters)}

Least(a, b) == IF a <= b THEN a ELSE b

C14_CappedAt100 ==
    (last.op = "list" /\ last.err = NoErr /\ Len(last.calls) = 1 /\ last.args.limit > 100) =>
        /\ Len(last.list) =
             Least(100, Cardinality(Matching(last.args)) -
                          Least(Cardinality(Matching(last.args)),
                                IF last.args.offset < 0 THEN 0 ELSE last.args.offset))
        /\ last.list \in GetAll(db, [last.args EXCEPT !.limit = 100])

\* C15: with one request at a time, a create answered 201 returns status
\* pending; after an update of id to s answered 200 the row has status s, a
\* get-by-id answered 200 returns the row as stored, and a dashboard answered
\* 200 reports status_counts of at least 1 for every status some row has (and
\* today_successful_transactions of at least 1 when a successful row was
\* created today); after a delete of id answered 200 the row is absent for
\* good, and every get-by-id, update and delete that looks up an absent id is
\* answered 404 when the lookup itself answers.
C15_Scenario ==
    [][/\ (last'.op = "create" /\ last'.resp.code = 201) =>
            /\ last'.tx.status = "pending"
            /\ Exists(db', last'.tx.id)
            /\ db'[last'.tx.id].status = "pending"
       /\ (last'.op = "update" /\ last'.resp.code = 200) =>
            /\ Exists(db', last'.args.id)
            /\ db'[last'.args.id].status = last'.args.status
       /\ (last'.op = "get" /\ last'.resp.code = 200) =>
            /\ Exists(db', last'.args.id)
            /\ last'.tx = db'[last'.args.id]
       /\ (last'.op = "summary" /\ last'.resp.code = 200) =>
            /\ Len(last'.summary) = 1
            /\ \A s \in Statuses :
                 (\E id \in DOMAIN db' : db'[id].status = s) =>
                     last'.summary[1].status_counts[s] >= 1
            /\ (\E id \in DOMAIN db' :
                   /\ db'[id].status = "success"
                   /\ Date(db'[id].created_at) = Date(now')) =>
                     last'.summary[1].today_successful_transactions >= 1
       /\ (last'.op = "delete" /\ last'.resp.code = 200) =>
            /\ ~Exists(db', last'.args.id)
            /\ last'.args.id < nextId'
       /\ \A id \in 1..(nextId - 1) : ~Exists(db, id) => ~Exists(db', id)
       /\ (/\ last'.op \in {"get", "update", "delete"}
           /\ Len(last'.calls) >= 1
           /\ ~Exists(db, last'.args.id)
           /\ last'.calls[1].ret \notin DriverErrs) => last'.resp.code = 404]_vars

\* C16: every successful create is given an id that no transaction created
\* before it had, the deleted ones included (every id given so far is below
\* the counter, the new id is not, and the counter never goes back), and no
\* step changes the id of a transaction.
C16_IdsNeverReused ==
    [][/\ nextId' >= nextId
       /\ \A id \in DOMAIN db : id < nextId
       /\ \A id \in DOMAIN db' \ DOMAIN db : id >= nextId /\ id < nextId'
       /\ \A id \in DOMAIN db' : db'[id].id = id
       /\ \A id \in DOMAIN db \cap DOMAIN db' : db'[id].id = db[id].id
       /\ (last'.op = "create" /\ last'.err = NoErr) =>
            /\ last'.tx.id \in DOMAIN db' \ DOMAIN db
            /\ last'.tx.id >= nextId]_vars

\* a create after the delete of transaction 1 was given the id 2
C16_Witness ==
    /\ last.op = "create"
    /\ last.err = NoErr
    /\ last.tx.id = 2
    /\ DOMAIN db = {2}

\* C17: in every state reached through the endpoints, every persisted
\* transaction has a stored amount, at the column's two fractional digits,
\* above 0, whatever amount passed the validation of the create endpoint.
C17_StoredAmountPositive == \A id \in DOMAIN db : db[id].amount > 0

\* C18: the create endpoint answers 400 for every amount below the documented
\* minimum 0.01 and does not turn away an amount of at least 0.01 that comes
\* with a valid user_id.
C18_MinimumAmount ==
    (last.via = "http" /\ last.op = "create" /\ last.raw.syntax /\ last.raw.user_id >= 1) =>
        /\ last.raw.amount < 10 => last.resp.code = 400
        /\ last.raw.amount >= 10 => last.resp.code \in {201, 500}

\* C19: a transaction created with an amount of at most two fractional digits
\* is stored with exactly that amount, no step changes the amount of a stored
\* transaction, and every get-by-id and list returns the rows as they are
\* stored and leaves the table as it was; so every later read, however many,
\* returns the amount of the creation request.
C19_AmountRoundTrip ==
    [][/\ (last'.op = "create" /\ last'.err = NoErr /\ last'.args.amount % 10 = 0) =>
            /\ Exists(db', last'.tx.id)
            /\ db'[last'.tx.id].amount = last'.args.amount
            /\ last'.tx.amount = last'.args.amount
       /\ \A id \in DOMAIN db \cap DOMAIN db' : db'[id].amount = db[id].amount
       /\ (last'.op = "get" /\ last'.err = NoErr) =>
            /\ Exists(db, last'.args.id)
            /\ last'.tx = db[last'.args.id]
       /\ (last'.op = "list" /\ last'.err = NoErr) =>
            \A i \in DOMAIN last'.list :
                /\ Exists(db, last'.list[i].id)
                /\ last'.list[i] = db[last'.list[i].id]
       /\ last'.op \in {"get", "list"} => db' = db
       /\ \A r \in Slots : slot[r].op \in {"get", "list"} => db' = db]_vars

\* a list returned two transactions, one of them created with 100.50
C19_Witness ==
    /\ last.op = "list"
    /\ last.err = NoErr
    /\ Len(last.list) = 2
    /\ last.list[1].amount = 100500
    /\ last.list[2].amount = 10
    /\ db[last.list[1].id].amount = 100500

\* C20: when a concurrent delete removed the row between the existence check
\* of an UpdateTransactionStatus or DeleteTransaction and its Update or Delete
\* statement, the statement changes no row and, unless the statement itself
\* fails, the method returns no error (answered 200) although the transaction
\* is absent; and there is such an interleaving.
C20_ZeroRowsSucceeds ==
    [][\A r \in Slots :
         (/\ Runs(r, "Update") \/ Runs(r, "Delete")
          /\ ~Exists(db, slot[r].args.id)) =>
             /\ db' = db
             /\ last'.args = slot[r].args
             /\ Len(last'.calls) = 2
             /\ last'.calls[1].fn = "GetByID"
             /\ last'.calls[1].tx.id = slot[r].args.id
             /\ last'.calls[2].ret = NoStoreErr =>
                  /\ last'.err = NoErr
                  /\ Response(last'.op, last'.err).code = 200
                  /\ ~Exists(db', slot[r].args.id)]_vars

\* an update returned no error for a transaction its lookup had found and a
\* delete has removed since
C20_Witness ==
    /\ last.op = "update"
    /\ last.err = NoErr
    /\ Len(last.calls) = 2
    /\ last.calls[1].tx.id = last.args.id
    /\ last.calls[2].fn = "Update"
    /\ last.calls[2].ret = NoStoreErr
    /\ ~Exists(db, last.args.id)

\* the rows of table t with status success created on day d
SuccessfulOn(t, d) ==
    {id \in DOMAIN t : t[id].status = "success" /\ Date(t[id].created_at) = d}

\* C21: GetTodaySuccessful counts in one statement and sums in a second one:
\* the count is over the table as the first statement reads it and the sum
\* over the table as the second reads it, so with a write between the two the
\* pair can fit no single table; when the table is the same for both, count
\* and sum are over exactly the same rows.
C21_CountSumSeparate ==
    [][\A r \in Slots :
         /\ (Runs(r, "GetTodaySuccessful") /\ slot'[r].pc = "GetTodaySuccessful.Sum") =>
              /\ slot'[r].today = Date(now)
              /\ slot'[r].acc.today_successful_transactions =
                   Cardinality(SuccessfulOn(db, Date(now)))
         /\ (Runs(r, "GetTodaySuccessful.Sum") /\ last'.err = NoErr) =>
              /\ Len(last'.summary) = 1
              /\ last'.summary[1].today_successful_transactions =
                   Cardinality(SuccessfulOn(slot[r].snap, slot[r].today))
              /\ last'.summary[1].today_successful_amount =
                   SumAmount(db, SuccessfulOn(db, slot[r].today))
              /\ slot[r].snap = db =>
                   /\ SuccessfulOn(slot[r].snap, slot[r].today) = SuccessfulOn(db, slot[r].today)
                   /\ last'.summary[1].today_successful_transactions =
                        Cardinality(SuccessfulOn(db, slot[r].today))]_vars

\* a count of 0 came back with a sum above 0: the transaction became
\* successful between the two statements
C21_Witness ==
    /\ last.op = "today"
    /\ last.err = NoErr
    /\ last.summary[1].today_successful_transactions = 0
    /\ last.summary[1].today_successful_amount = 100500

\* the repository calls one invocation of op may make, in order
CallSites(op) ==
    CASE op = "create" -> <<"Create">>
      [] op = "get" -> <<"GetByID">>
      [] op = "update" -> <<"GetByID", "Update">>
      [] op = "delete" -> <<"GetByID", "Delete">>
      [] op = "summary" ->
           <<"GetTodaySuccessful", "GetAveragePerUser", "GetLatest", "GetStatusCounts">>
      [] OTHER -> <<>>

\* calls are the first call sites of op, each once, none after a failure
OncePerSite(op, calls) ==
    /\ Len(calls) <= Len(CallSites(op))
    /\ \A k \in DOMAIN calls :
         /\ calls[k].fn = CallSites(op)[k]
         /\ k < Len(calls) => calls[k].ret = NoStoreErr

\* C22: no service method retries: one invocation runs each of its
\* repository call sites at most once, in order (Create; GetByID; GetByID then
\* Update; GetByID then Delete; the four queries of GetSummary), and the first
\* call that fails is the last one, its failure returned to the caller.
C22_NoRetry ==
    /\ (last.entered /\ last.op \in {"create", "get", "update", "delete", "summary"}) =>
         /\ OncePerSite(last.op, last.calls)
         /\ \A k \in DOMAIN last.calls :
              last.calls[k].ret # NoStoreErr => last.err # NoErr
         /\ (last.err = NoErr /\ last.op # "update" /\ last.op # "delete") =>
              Len(last.calls) = Len(CallSites(last.op))
    /\ \A r \in Slots : slot[r].pc # "idle" =>
         /\ OncePerSite(slot[r].op, slot[r].calls)
         /\ Len(slot[r].calls) < Len(CallSites(slot[r].op))
         /\ \A k \in DOMAIN slot[r].calls : slot[r].calls[k].ret = NoStoreErr

\* the Update statement failed once and the failure went to the caller
C22_Witness ==
    /\ last.op = "update"
    /\ Len(last.calls) = 2
    /\ last.calls[2].fn = "Update"
    /\ last.calls[2].ret \in DriverErrs
    /\ last.err = "failed to update transaction: connection refused"
    /\ last.resp.code = 500

\* C23: over an empty table a dashboard summary whose repository calls all
\* return without error succeeds, with today_successful_transactions 0,
\* today_successful_amount 0, average_transaction_per_user 0, no latest
\* transactions and the three status counts 0.
C23_EmptySummary ==
    (/\ last.op = "summary"
     /\ DOMAIN db = {}
     /\ \A k \in DOMAIN last.calls : last.calls[k].ret = NoStoreErr) =>
        /\ last.err = NoErr
        /\ Len(last.summary) = 1
        /\ last.summary[1].today_successful_transactions = 0
        /\ last.summary[1].today_successful_amount = 0
        /\ last.summary[1].average_transaction_per_user = 0
        /\ last.summary[1].latest_transactions = <<>>
        /\ last.summary[1].status_counts = [success |-> 0, pending |-> 0, failed |-> 0]
        /\ last.via = "http" => last.resp.code = 200

\* the summary over a table emptied by a delete
C23_Witness ==
    /\ last.op = "summary"
    /\ last.via = "http"
    /\ last.err = NoErr
    /\ last.resp.code = 200
    /\ DOMAIN db = {}
    /\ nextId = 2
    /\ last.calls[4].failed = {}

\* C24: every answer with code 500 carries the message "Internal server
\* error", whatever the text of the failure behind it.
C24_Generic500 == last.resp.code = 500 => last.resp.error = "Internal server error"

\* C25 as stated: GetTodaySuccessful returns the number of the rows with
\* status success created on the current day and the sum of the amounts of
\* those same rows, (0, 0) without error when there are none, and (0, 0) with
\* the error when either statement fails.
C25_CountAndSum ==
    [][\A r \in Slots :
         (slot[r].op = "today" /\ Runs(r, "GetTodaySuccessful.Sum") /\ last'.err = NoErr) =>
             \E t \in {slot[r].snap, db} :
                 /\ last'.summary[1].today_successful_transactions =
                      Cardinality(SuccessfulOn(t, slot[r].today))
                 /\ last'.summary[1].today_successful_amount =
                      SumAmount(t, SuccessfulOn(t, slot[r].today))]_vars

\* C25, amended: the count is over the rows with status success created on
\* the current day as the Count statement finds them and the sum over such
\* rows as the SUM statement finds them; when no write changed the table
\* between the two statements these are the same rows, rows of another day
\* or another status left out, and the pair is (0, 0) without error when there
\* are none; when either statement fails the call returns (0, 0) and the
\* error, never a count with an error.
C25_CountAndSumUnlessWritten ==
    [][/\ \A r \in Slots :
            (slot[r].op = "today" /\ Runs(r, "GetTodaySuccessful.Sum") /\ last'.err = NoErr) =>
                /\ last'.summary[1].today_successful_transactions =
                     Cardinality(SuccessfulOn(slot[r].snap, slot[r].today))
                /\ last'.summary[1].today_successful_amount =
                     SumAmount(db, SuccessfulOn(db, slot[r].today))
                /\ slot[r].snap = db =>
                     /\ last'.summary[1].today_successful_transactions =
                          Cardinality(SuccessfulOn(db, slot[r].today))
                     /\ SuccessfulOn(db, slot[r].today) = {} =>
                          /\ last'.summary[1].today_successful_transactions = 0
                          /\ last'.summary[1].today_successful_amount = 0
       /\ (last'.op = "today" /\ last'.err # NoErr) =>
            /\ Len(last'.calls) = 1
            /\ last'.calls[1].ret \in DriverErrs
            /\ last'.err = last'.calls[1].ret.msg
            /\ last'.summary[1].today_successful_transactions = 0
            /\ last'.summary[1].today_successful_amount = 0
       /\ (last'.op = "today" /\ last'.err = NoErr) =>
            /\ Len(last'.calls) = 1
            /\ last'.calls[1].failed = {}
            /\ last'.calls[1].ret = NoStoreErr]_vars

\* (0, 0) came back over a table whose only successful row is of another day
C25_Witness ==
    /\ last.op = "today"
    /\ last.err = NoErr
    /\ last.summary[1].today_successful_transactions = 0
    /\ last.summary[1].today_successful_amount = 0
    /\ \E id \in DOMAIN db :
         /\ db[id].status = "success"
         /\ Date(db[id].created_at) # Date(now)

\* the ids of the rows with the user_id asked for, if one is, and the status
\* asked for, if one is
Selected(f) ==
    {id \in DOMAIN db :
        /\ f.user_id # 0 => db[id].user_id = f.user_id
        /\ f.status # "" => db[id].status = f.status}

\* C26: GetAll returns rows of the table that satisfy every filter that is
\* set, each once, newest first, leaving out the offset newest of them and
\* all beyond the limit, where offset and limit are the ones it gave its
\* statement; when no row satisfies the filters it returns an empty list and
\* no error.
C26_FilteredPage ==
    (last.op = "list" /\ Len(last.calls) = 1 /\ last.calls[1].ret = NoStoreErr) =>
        LET f == last.args
            c == last.calls[1]
            n == Cardinality(Selected(f))
        IN  /\ last.err = NoErr
            /\ \A i \in DOMAIN last.list :
                 /\ last.list[i].id \in Selected(f)
                 /\ last.list[i] = db[last.list[i].id]
            /\ \A i, j \in DOMAIN last.list :
                 i < j => /\ last.list[i].id # last.list[j].id
                          /\ last.list[i].created_at >= last.list[j].created_at
            /\ last.list # <<>> =>
                 Cardinality({id \in Selected(f) :
                                db[id].created_at > last.list[1].created_at}) = c.offset
            /\ c.limit >= 0 =>
                 Len(last.list) = (IF n <= c.offset THEN 0 ELSE Least(c.limit, n - c.offset))
            /\ n = 0 => last.list = <<>>

\* of the three successful transactions of user 1 the second newest came back
C26_Witness ==
    /\ last.op = "list"
    /\ last.err = NoErr
    /\ last.args.user_id = 1
    /\ last.args.status = "success"
    /\ last.args.limit = 1
    /\ last.args.offset = 1
    /\ Cardinality(DOMAIN db) = 21
    /\ Len(last.list) = 1
    /\ last.list[1].id = 12

\* C27: whatever integer the filters carry as limit, negative ones included,
\* the limit GetAll gives its statement lies in 1..100, and the list that
\* comes back has at most 100 transactions.
C27_LimitInRange ==
    (last.op = "list" /\ Len(last.calls) = 1) =>
        /\ last.calls[1].limit \in 1..MaxLimit
        /\ Len(last.list) <= MaxLimit

\* C28: the store changes only in the step in which a create, an update or a
\* delete returns without error, which is the last step of that call; so no
\* step of a call that returns an error changes the store, and in the step
\* in which a call returns an error the store stays as it is.
C28_FailureLeavesStore ==
    [][/\ last'.err # NoErr => db' = db
       /\ db' # db => /\ last'.op \in {"create", "update", "delete"}
                      /\ last'.entered
                      /\ last'.err = NoErr
                      /\ \E r \in Slots : slot[r].pc # "idle" /\ slot'[r] = Idle]_vars

\* an update failed at its Update statement and the row has kept its status
C28_Witness ==
    /\ last.op = "update"
    /\ last.err # NoErr
    /\ Len(last.calls) = 2
    /\ last.calls[2].fn = "Update"
    /\ last.calls[2].ret # NoStoreErr
    /\ last.args.id \in DOMAIN db
    /\ db[last.args.id].status = "pending"

\* C29: a DeleteTransaction reports success only in the step in which its
\* Delete statement removes the row, so of two DeleteTransaction calls for
\* one id that run at the same time at most one reports success; the other
\* finds the row gone.
C29_DeletedOnce ==
    [][\A r \in Slots :
         (/\ slot[r].op = "delete"
          /\ slot[r].pc # "idle"
          /\ slot'[r] = Idle
          /\ last'.err = NoErr)
         => /\ slot[r].args.id \in DOMAIN db
            /\ slot[r].args.id \notin DOMAIN db']_vars

\* C30: the ids below the auto-increment counter that are not in the table
\* are the deleted ones, and no step brings one of them back, whatever calls
\* are in flight; the table gains a row only in the step in which a create
\* returns without error, and that row has the id the counter gave.
C30_NeverResurrected ==
    [][/\ \A id \in 1..(nextId - 1) : id \notin DOMAIN db => id \notin DOMAIN db'
       /\ Cardinality(DOMAIN db') > Cardinality(DOMAIN db) =>
            /\ last'.op = "create"
            /\ last'.entered
            /\ last'.err = NoErr
            /\ DOMAIN db' = DOMAIN db \cup {nextId}]_vars

\* an update that had found its row ran its statement after the row's delete,
\* and the table is empty still
C30_Witness ==
    /\ last.op = "update"
    /\ last.err = NoErr
    /\ last.calls[1].tx.id = last.args.id
    /\ last.args.id < nextId
    /\ DOMAIN db = {}

====
